---- MODULE Spec2Model ----
(***************************************************************************)
(* Tax-proportion and yield computations of mmf_optimizer.                  *)
(*                                                                         *)
(* Two implementations live in the repository: the calculation module      *)
(* logic.py and the command-line script optimizer.py, which carries its    *)
(* own copies of the same rules.  Both are modelled, each from its own     *)
(* source.                                                                 *)
(*                                                                         *)
(* Numbers: Python floats are modelled as exact rationals <<n, d>> with    *)
(* d > 0 in lowest terms, so equalities are those of real arithmetic;      *)
(* IEEE-754 rounding is not modelled.                                      *)
(* Strings that the code inspects (fund names, state codes) are sequences  *)
(* of one-character strings, so lower() and the substring test `in` are    *)
(* computed, not assumed.                                                  *)
(***************************************************************************)
EXTENDS Integers, Sequences, FiniteSets, TLC

VARIABLES pc, fund, state, props, fund_yield, fed_rate, state_rate, p, yields,
          income, brackets, rate

vars == <<pc, fund, state, props, fund_yield, fed_rate, state_rate, p, yields,
          income, brackets, rate>>

(* ------------------------------ rationals ------------------------------ *)

Abs(n) == IF n < 0 THEN -n ELSE n

RECURSIVE GCD(_, _)
GCD(a, b) == IF b = 0 THEN a ELSE GCD(b, a % b)

\* n/d with d > 0, in lowest terms
Norm(n, d) == LET g == GCD(Abs(n), d) IN <<n \div g, d \div g>>

R(n, d) == Norm(n, d)
Zero == R(0, 1)
One == R(1, 1)

RAdd(a, b) == Norm(a[1] * b[2] + b[1] * a[2], a[2] * b[2])
RSub(a, b) == Norm(a[1] * b[2] - b[1] * a[2], a[2] * b[2])
RMul(a, b) == Norm(a[1] * b[1], a[2] * b[2])
\* a / b, for b # 0
RDiv(a, b) == IF b[1] > 0 THEN Norm(a[1] * b[2], a[2] * b[1])
              ELSE Norm(-(a[1] * b[2]), a[2] * (-b[1]))
RLe(a, b) == a[1] * b[2] <= b[1] * a[2]
RLt(a, b) == a[1] * b[2] < b[1] * a[2]
RGe(a, b) == RLe(b, a)
RGt(a, b) == RLt(b, a)

RECURSIVE RSum(_)
\* Python's sum(...) over a sequence of numbers, starting from 0
RSum(s) == IF s = <<>> THEN Zero ELSE RAdd(RSum(SubSeq(s, 1, Len(s) - 1)), s[Len(s)])

(* ------------------------------- strings ------------------------------- *)

UpperCase == <<"A", "B", "C", "D", "E", "F", "G", "H", "I", "J", "K", "L", "M",
               "N", "O", "P", "Q", "R", "S", "T", "U", "V", "W", "X", "Y", "Z">>
LowerCase == <<"a", "b", "c", "d", "e", "f", "g", "h", "i", "j", "k", "l", "m",
               "n", "o", "p", "q", "r", "s", "t", "u", "v", "w", "x", "y", "z">>

\* one character's lower-case and upper-case forms
LowerCh == [c \in {UpperCase[i] : i \in 1..26} |->
               LowerCase[CHOOSE i \in 1..26 : UpperCase[i] = c]]
UpperCh == [c \in {LowerCase[i] : i \in 1..26} |->
               UpperCase[CHOOSE i \in 1..26 : LowerCase[i] = c]]

\* str.lower()
Lower(s) == [i \in 1..Len(s) |-> IF s[i] \in DOMAIN LowerCh THEN LowerCh[s[i]] ELSE s[i]]
\* str.upper()
Upper(s) == [i \in 1..Len(s) |-> IF s[i] \in DOMAIN UpperCh THEN UpperCh[s[i]] ELSE s[i]]

\* Python's `needle in haystack` on strings
Contains(haystack, needle) ==
    \E i \in 0..(Len(haystack) - Len(needle)) :
        SubSeq(haystack, i + 1, i + Len(needle)) = needle

GEN == <<"G", "E", "N">>
NONE == <<"N", "O", "N", "E">>
DC == <<"D", "C">>
NY == <<"N", "Y">>
NJ == <<"N", "J">>
nj == <<"n", "j">>
CA == <<"C", "A">>
CT == <<"C", "T">>
WA == <<"W", "A">>
ZZ == <<"Z", "Z">>

NewYork == <<"N", "e", "w", " ", "Y", "o", "r", "k">>
NewJersey == <<"N", "e", "w", " ", "J", "e", "r", "s", "e", "y">>
California == <<"C", "a", "l", "i", "f", "o", "r", "n", "i", "a">>
Connecticut == <<"C", "o", "n", "n", "e", "c", "t", "i", "c", "u", "t">>
Washington == <<"W", "a", "s", "h", "i", "n", "g", "t", "o", "n">>

\* The part of the us package's state table that the modelled inputs reach:
\* abbreviation -> full name.
StateTable == <<[abbr |-> NY, name |-> NewYork],
                [abbr |-> NJ, name |-> NewJersey],
                [abbr |-> CA, name |-> California],
                [abbr |-> CT, name |-> Connecticut],
                [abbr |-> WA, name |-> Washington]>>

NoState == [found |-> FALSE, name |-> <<>>]

\* us.states.lookup(state): a two-letter value is upper-cased and matched on the
\* abbreviation; the result is the state or None.
lookup(val) ==
    LET hits == {i \in 1..Len(StateTable) : StateTable[i].abbr = Upper(val)}
    IN IF hits = {} THEN NoState
       ELSE [found |-> TRUE, name |-> StateTable[CHOOSE i \in hits : TRUE].name]

(* ----------------------------- fund records ---------------------------- *)

\* A fund is a dict: a function whose domain is the set of keys present.
\* A composition value is a number or None.
Num(r) == [kind |-> "num", val |-> r]
PyNone == [kind |-> "none", val |-> Zero]

\* fund.get(key, 0)
Get(f, key) == IF key \in DOMAIN f THEN f[key] ELSE Num(Zero)

\* x or 0, for x a number or None
OrZero(x) == IF x.kind = "none" \/ x.val = Zero THEN Zero ELSE x.val

MUNI_KEYS == <<"variableRateDemandNote", "otherMunicipalSecurity", "tenderOptionBond",
               "investmentCompany", "nonFinancialCompanyCommercialPaper">>
USGO_KEYS == <<"usTreasuryDebt", "usGovernmentAgencyDebt">>
MUNI_CATEGORIES == {"OtherTaxExempt", "SingleState"}
FIFTY_PERCENT_STATES == {CA, NY, CT}

(* ------------------- logic.py: tax-proportion calculator ---------------- *)

find_state_in_fund_name(f, st) ==
    IF st \in {GEN, NONE} THEN FALSE
    ELSE IF st = DC THEN TRUE
    ELSE LET state_lookup == lookup(st)
         IN IF ~state_lookup.found THEN FALSE
            ELSE Contains(Lower(f["name"]), Lower(state_lookup.name))

calculate_muni_percent(f) ==
    IF "category" \notin DOMAIN f \/ f["category"] \notin MUNI_CATEGORIES THEN Zero
    ELSE RSum([i \in 1..Len(MUNI_KEYS) |-> OrZero(Get(f, MUNI_KEYS[i]))])

\* calculate_ps with the New Jersey boundary exclusive
calculate_ps_exclusive(f, st) ==
    LET in_state_muni == find_state_in_fund_name(f, st)
        muni_percent == calculate_muni_percent(f)
    IN IF in_state_muni /\ (Lower(st) # nj \/ RGt(muni_percent, R(8, 10)))
       THEN muni_percent
       ELSE Zero

calculate_ps(f, st) ==
    LET in_state_muni == find_state_in_fund_name(f, st)
        muni_percent == calculate_muni_percent(f)
    IN IF in_state_muni /\ (Lower(st) # nj \/ RGe(muni_percent, R(8, 10)))
       THEN muni_percent
       ELSE Zero

\* calculate_pm without the state-match test
calculate_pm_unconditional(f, st) == calculate_muni_percent(f)

calculate_pm(f, st) ==
    LET in_state_muni == find_state_in_fund_name(f, st)
    IN IF ~in_state_muni THEN calculate_muni_percent(f) ELSE Zero

calculate_pg(f, st) ==
    LET usgo_percent == RAdd(OrZero(Get(f, "usTreasuryDebt")),
                             OrZero(Get(f, "usGovernmentAgencyDebt")))
    IN IF st \in FIFTY_PERCENT_STATES /\ RLt(usgo_percent, R(5, 10))
       THEN Zero
       ELSE usgo_percent

\* calculate_tax_proportions with pg left out of the residual
calculate_tax_proportions_drop_pg(f, st) ==
    LET ps == calculate_ps(f, st)
        pm == calculate_pm(f, st)
        pg == calculate_pg(f, st)
    IN [status |-> "ok", ps |-> ps, pm |-> pm, pg |-> pg,
        pt |-> RSub(One, RAdd(ps, pm))]

calculate_tax_proportions(f, st) ==
    LET ps == calculate_ps(f, st)
        pm == calculate_pm(f, st)
        pg == calculate_pg(f, st)
    IN [status |-> "ok", ps |-> ps, pm |-> pm, pg |-> pg,
        pt |-> RSub(One, RAdd(RAdd(ps, pm), pg))]

(* ----------------- optimizer.py: the script's own copies ---------------- *)

\* A call either returns a value or raises.
Ret(v) == [raised |-> "", val |-> v]
Raise(e) == [raised |-> e, val |-> Zero]

\* us.states.lookup(state).name: None has no attribute `name`
optimizer_find_state_in_fund_name(f, st) ==
    IF st \in {GEN, NONE} THEN [raised |-> "", val |-> FALSE]
    ELSE IF st = DC THEN [raised |-> "", val |-> TRUE]
    ELSE LET state_lookup == lookup(st)
         IN IF ~state_lookup.found THEN [raised |-> "AttributeError", val |-> FALSE]
            ELSE [raised |-> "",
                  val |-> Contains(Lower(f["name"]), Lower(state_lookup.name))]

\* sum(value for value in [fund.get(k, 0), ...] if value is not None)
SumNotNone(f, keys) ==
    RSum([i \in 1..Len(keys) |->
            IF Get(f, keys[i]).kind = "none" THEN Zero ELSE Get(f, keys[i]).val])

optimizer_muni_percent(f) ==
    IF f["category"] \in MUNI_CATEGORIES THEN SumNotNone(f, MUNI_KEYS) ELSE Zero

calculate_Ps(f, st) ==
    LET in_state_muni == optimizer_find_state_in_fund_name(f, st)
        muni_percent == optimizer_muni_percent(f)
    IN IF in_state_muni.raised # "" THEN Raise(in_state_muni.raised)
       ELSE IF in_state_muni.val /\ Lower(st) # nj THEN Ret(muni_percent)
       ELSE IF in_state_muni.val /\ RGe(muni_percent, R(8, 10)) THEN Ret(muni_percent)
       ELSE Ret(Zero)

calculate_Pm(f, st) ==
    LET in_state_muni == optimizer_find_state_in_fund_name(f, st)
        muni_percent == optimizer_muni_percent(f)
    IN IF in_state_muni.raised # "" THEN Raise(in_state_muni.raised)
       ELSE IF ~in_state_muni.val THEN Ret(muni_percent)
       ELSE Ret(Zero)

\* calculate_Pg with the fifty-percent boundary exclusive
calculate_Pg_exclusive(f, st) ==
    LET usgo_percent == SumNotNone(f, USGO_KEYS)
    IN IF st \in FIFTY_PERCENT_STATES /\ RGt(usgo_percent, R(5, 10)) THEN usgo_percent
       ELSE IF st \notin FIFTY_PERCENT_STATES THEN usgo_percent
       ELSE Zero

calculate_Pg(f, st) ==
    LET usgo_percent == SumNotNone(f, USGO_KEYS)
    IN IF st \in FIFTY_PERCENT_STATES /\ RGe(usgo_percent, R(5, 10)) THEN usgo_percent
       ELSE IF st \notin FIFTY_PERCENT_STATES THEN usgo_percent
       ELSE Zero

\* main_proportions with the residual's operands swapped
main_proportions_swapped(f, st) ==
    LET Ps == calculate_Ps(f, st)
        Pm == calculate_Pm(f, st)
        Pg == calculate_Pg(f, st)
    IN IF Ps.raised # ""
       THEN [status |-> Ps.raised, ps |-> Zero, pm |-> Zero, pg |-> Zero, pt |-> Zero]
       ELSE IF Pm.raised # ""
       THEN [status |-> Pm.raised, ps |-> Zero, pm |-> Zero, pg |-> Zero, pt |-> Zero]
       ELSE [status |-> "ok", ps |-> Ps.val, pm |-> Pm.val, pg |-> Pg,
             pt |-> RSub(RAdd(RAdd(Ps.val, Pm.val), Pg), One)]

\* main(), the loop body's four proportions
main_proportions(f, st) ==
    LET Ps == calculate_Ps(f, st)
        Pm == calculate_Pm(f, st)
        Pg == calculate_Pg(f, st)
    IN IF Ps.raised # ""
       THEN [status |-> Ps.raised, ps |-> Zero, pm |-> Zero, pg |-> Zero, pt |-> Zero]
       ELSE IF Pm.raised # ""
       THEN [status |-> Pm.raised, ps |-> Zero, pm |-> Zero, pg |-> Zero, pt |-> Zero]
       ELSE [status |-> "ok", ps |-> Ps.val, pm |-> Pm.val, pg |-> Pg,
             pt |-> RSub(One, RAdd(RAdd(Ps.val, Pm.val), Pg))]

(* ---------------------- logic.py: yield calculator ---------------------- *)

calculate_after_tax_yield(y, fed, st_rate, ps, pm, pg, pt) ==
    RMul(y, RAdd(RAdd(RAdd(ps,
                           RMul(pm, RSub(One, st_rate))),
                      RMul(pg, RSub(One, fed))),
                 RMul(pt, RSub(RSub(One, fed), st_rate))))

\* calculate_tax_equivalent_yield with the fully-taxable term divided as well
calculate_tax_equivalent_yield_divides_pt(y, fed, st_rate, ps, pm, pg, pt) ==
    LET denom == RSub(RSub(One, fed), st_rate)
    IN IF RLe(denom, Zero) THEN y
       ELSE RMul(y, RAdd(RAdd(RAdd(RDiv(ps, denom),
                                   RDiv(RMul(pm, RSub(One, st_rate)), denom)),
                              RDiv(RMul(pg, RSub(One, fed)), denom)),
                         RDiv(pt, denom)))

calculate_tax_equivalent_yield(y, fed, st_rate, ps, pm, pg, pt) ==
    LET denom == RSub(RSub(One, fed), st_rate)
    IN IF RLe(denom, Zero) THEN y
       ELSE RMul(y, RAdd(RAdd(RAdd(RDiv(ps, denom),
                                   RDiv(RMul(pm, RSub(One, st_rate)), denom)),
                              RDiv(RMul(pg, RSub(One, fed)), denom)),
                         pt))

\* process_fund's YieldResults for given proportions
yield_results(y, fed, st_rate, q) ==
    [status |-> "ok",
     after_tax_yield |-> calculate_after_tax_yield(y, fed, st_rate, q.ps, q.pm, q.pg, q.pt),
     tax_equivalent_yield |->
         calculate_tax_equivalent_yield(y, fed, st_rate, q.ps, q.pm, q.pg, q.pt)]

(* -------------------- optimizer.py: yield calculator -------------------- *)

optimizer_calculate_after_tax_yield(y, fed, st_rate, Ps, Pm, Pg, Pt) ==
    RAdd(RAdd(RAdd(RMul(y, Ps),
                   RMul(RMul(y, Pm), RSub(One, st_rate))),
              RMul(RMul(y, Pg), RSub(One, fed))),
         RMul(RMul(y, Pt), RSub(RSub(One, fed), st_rate)))

\* every quotient has the divisor 1 - federal_tax_rate - state_tax_rate, unguarded
optimizer_calculate_tax_equivalent_yield(y, fed, st_rate, Ps, Pm, Pg, Pt) ==
    LET divisor == RSub(RSub(One, fed), st_rate)
    IN IF divisor = Zero THEN Raise("ZeroDivisionError")
       ELSE Ret(RAdd(RAdd(RAdd(RDiv(RMul(y, Ps), divisor),
                               RDiv(RMul(RMul(y, Pm), RSub(One, st_rate)), divisor)),
                          RDiv(RMul(RMul(y, Pg), RSub(One, fed)), divisor)),
                     RMul(y, Pt)))

\* main(), the loop body's two yields
main_yields(y, fed, st_rate, q) ==
    LET after_tax_yield ==
            optimizer_calculate_after_tax_yield(y, fed, st_rate, q.ps, q.pm, q.pg, q.pt)
        tax_equivalent_yield ==
            optimizer_calculate_tax_equivalent_yield(y, fed, st_rate, q.ps, q.pm, q.pg, q.pt)
    IN [status |-> IF tax_equivalent_yield.raised # "" THEN tax_equivalent_yield.raised
                   ELSE "ok",
        after_tax_yield |-> after_tax_yield,
        tax_equivalent_yield |-> tax_equivalent_yield.val]

(* -------------------- logic.py: marginal-rate resolver ------------------ *)

RECURSIVE scan_brackets(_, _, _, _)
\* the for loop from bracket i on, with the rate found so far
scan_brackets(inc, table, i, current_rate) ==
    IF i > Len(table) THEN current_rate
    ELSE IF inc >= table[i][1] THEN scan_brackets(inc, table, i + 1, table[i][2])
    ELSE current_rate

RECURSIVE scan_brackets_flipped(_, _, _, _)
\* the loop with the comparison turned round
scan_brackets_flipped(inc, table, i, current_rate) ==
    IF i > Len(table) THEN current_rate
    ELSE IF inc <= table[i][1] THEN scan_brackets_flipped(inc, table, i + 1, table[i][2])
    ELSE current_rate

get_marginal_rate_flipped(inc, table) == scan_brackets_flipped(inc, table, 1, table[1][2])

RECURSIVE scan_brackets_strict(_, _, _, _)
\* the loop with a strict comparison
scan_brackets_strict(inc, table, i, current_rate) ==
    IF i > Len(table) THEN current_rate
    ELSE IF inc > table[i][1] THEN scan_brackets_strict(inc, table, i + 1, table[i][2])
    ELSE current_rate

get_marginal_rate_strict(inc, table) == scan_brackets_strict(inc, table, 1, table[1][2])

\* brackets is a non-empty list of (threshold, rate)
get_marginal_rate(inc, table) == scan_brackets(inc, table, 1, table[1][2])

(* ------------------------------- inputs -------------------------------- *)

MaxBrackets == 3
MaxThreshold == 3
MaxIncome == 4

GeneralMuniFund == <<"G", "e", "n", "e", "r", "a", "l", " ", "M", "u", "n", "i", " ",
                     "F", "u", "n", "d">>
NewYorkMuni == <<"V", "a", "n", "g", "u", "a", "r", "d", " ", "N", "e", "w", " ",
                 "Y", "o", "r", "k", " ", "M", "u", "n", "i">>
NewJerseyTaxFree == <<"N", "E", "W", " ", "J", "E", "R", "S", "E", "Y", " ",
                      "T", "a", "x", " ", "F", "r", "e", "e">>

FundNames == {GeneralMuniFund, NewYorkMuni, NewJerseyTaxFree}
Categories == {"SingleState", "OtherTaxExempt", "Government"}
StateCodes == {NY, NJ, nj, CA, CT, WA, DC, GEN, NONE, ZZ}

\* what a composition key may hold when it is present
MuniValues == {PyNone, Num(R(1, 5))}
UsgoValues == {PyNone, Num(R(1, 10)), Num(R(2, 5))}

ToSet(seq) == {seq[i] : i \in 1..Len(seq)}

Yields == {R(0, 1), R(7, 2), R(5, 1)}
Rates == {R(0, 1), R(1, 10), R(1, 5), R(2, 5), R(1, 2), R(3, 5)}
Shares == {R(0, 1), R(3, 10), R(1, 1)}

BracketRates == {R(1, 10), R(1, 5), R(3, 10)}
Ascending(table) == \A i \in 1..(Len(table) - 1) : table[i][1] <= table[i + 1][1]
BracketTables ==
    {t \in UNION {[1..n -> (0..MaxThreshold) \X BracketRates] : n \in 1..MaxBrackets} :
        Ascending(t)}

NoFund == [name |-> <<>>, category |-> ""]
NoProps == [status |-> "", ps |-> Zero, pm |-> Zero, pg |-> Zero, pt |-> Zero]
NoYields == [status |-> "", after_tax_yield |-> Zero, tax_equivalent_yield |-> Zero]

(* --------------------- proportions of a fund record --------------------- *)

InitProportions ==
    /\ pc = "start"
    /\ \E name \in FundNames, category \in Categories,
          ms \in SUBSET ToSet(MUNI_KEYS), gs \in SUBSET ToSet(USGO_KEYS) :
          \E mf \in [ms -> MuniValues], gf \in [gs -> UsgoValues] :
              fund = mf @@ gf @@ [name |-> name, category |-> category]
    /\ state \in StateCodes
    /\ props = NoProps
    /\ fund_yield = Zero /\ fed_rate = Zero /\ state_rate = Zero
    /\ p = NoProps /\ yields = NoYields
    /\ income = 0 /\ brackets = <<>> /\ rate = Zero

\* logic.calculate_tax_proportions(fund, state)
CalculateTaxProportions ==
    /\ pc = "start"
    /\ props' = calculate_tax_proportions(fund, state)
    /\ pc' = "logic"
    /\ UNCHANGED <<fund, state, fund_yield, fed_rate, state_rate, p, yields,
                   income, brackets, rate>>

\* optimizer.main: Ps, Pm, Pg, Pt of one fund
MainProportions ==
    /\ pc = "start"
    /\ props' = main_proportions(fund, state)
    /\ pc' = "optimizer"
    /\ UNCHANGED <<fund, state, fund_yield, fed_rate, state_rate, p, yields,
                   income, brackets, rate>>

NextProportions == CalculateTaxProportions \/ MainProportions

SpecProportions == InitProportions /\ [][NextProportions]_vars

(* --------------------------- yields of a fund --------------------------- *)

InitYields ==
    /\ pc = "start"
    /\ fund_yield \in Yields
    /\ fed_rate \in Rates
    /\ state_rate \in Rates
    /\ p \in [status : {"ok"}, ps : Shares, pm : Shares, pg : Shares, pt : Shares]
    /\ yields = NoYields
    /\ fund = NoFund /\ state = <<>> /\ props = NoProps
    /\ income = 0 /\ brackets = <<>> /\ rate = Zero

\* logic.process_fund: the two yields
ProcessFundYields ==
    /\ pc = "start"
    /\ yields' = yield_results(fund_yield, fed_rate, state_rate, p)
    /\ pc' = "logic"
    /\ UNCHANGED <<fund, state, props, fund_yield, fed_rate, state_rate, p,
                   income, brackets, rate>>

\* optimizer.main: the two yields
MainYields ==
    /\ pc = "start"
    /\ yields' = main_yields(fund_yield, fed_rate, state_rate, p)
    /\ pc' = "optimizer"
    /\ UNCHANGED <<fund, state, props, fund_yield, fed_rate, state_rate, p,
                   income, brackets, rate>>

NextYields == ProcessFundYields \/ MainYields

SpecYields == InitYields /\ [][NextYields]_vars

(* ----------------------------- marginal rate ---------------------------- *)

InitRates ==
    /\ pc = "start"
    /\ income \in 0..MaxIncome
    /\ brackets \in BracketTables
    /\ rate = Zero
    /\ fund = NoFund /\ state = <<>> /\ props = NoProps
    /\ fund_yield = Zero /\ fed_rate = Zero /\ state_rate = Zero
    /\ p = NoProps /\ yields = NoYields

GetMarginalRate ==
    /\ pc = "start"
    /\ rate' = get_marginal_rate(income, brackets)
    /\ pc' = "logic"
    /\ UNCHANGED <<fund, state, props, fund_yield, fed_rate, state_rate, p, yields,
                   income, brackets>>

NextRates == GetMarginalRate

SpecRates == InitRates /\ [][NextRates]_vars

(* ------------------- what the proportions should be --------------------- *)

\* a composition field's share: the number it holds, 0 when absent or null
ShareOf(f, key) == IF key \in DOMAIN f /\ f[key].kind = "num" THEN f[key].val ELSE Zero

MunicipalShare(f) ==
    IF f["category"] \in {"OtherTaxExempt", "SingleState"}
    THEN RAdd(ShareOf(f, "variableRateDemandNote"),
         RAdd(ShareOf(f, "otherMunicipalSecurity"),
         RAdd(ShareOf(f, "tenderOptionBond"),
         RAdd(ShareOf(f, "investmentCompany"),
              ShareOf(f, "nonFinancialCompanyCommercialPaper")))))
    ELSE Zero

GovernmentShare(f) == RAdd(ShareOf(f, "usTreasuryDebt"), ShareOf(f, "usGovernmentAgencyDebt"))

\* the state codes whose state a fund name names
StatesNamed(f) ==
    IF f["name"] = NewYorkMuni THEN {NY}
    ELSE IF f["name"] = NewJerseyTaxFree THEN {NJ, nj}
    ELSE {}

\* the fund's name matches the investor's state (the District of Columbia always does)
NameMatches(f, st) == st = DC \/ st \in StatesNamed(f)

IsNewJersey(st) == st \in {NJ, nj}

FieldsInUnitInterval(f) ==
    \A key \in ToSet(MUNI_KEYS) \cup ToSet(USGO_KEYS) :
        RLe(Zero, ShareOf(f, key)) /\ RLe(ShareOf(f, key), One)

Computed == pc \in {"logic", "optimizer"} /\ props.status = "ok"

SumOfThree == RAdd(RAdd(props.ps, props.pm), props.pg)

\* C1: whenever the four proportions of a fund and a state code are computed,
\* Ps + Pm + Pg + Pt = 1, missing and null composition fields included; the
\* calculation module computes them for every fund and every state code.
C1_ProportionsSumToOne ==
    /\ pc = "logic" => props.status = "ok"
    /\ Computed => RAdd(SumOfThree, props.pt) = One

\* C1 witness: proportions of a fund with an absent and a null field, some share
\* of it not fully taxable
C1_Witness ==
    /\ pc = "logic"
    /\ \E key \in ToSet(MUNI_KEYS) \cup ToSet(USGO_KEYS) : key \notin DOMAIN fund
    /\ \E key \in DOMAIN fund \ {"name", "category"} : fund[key] = PyNone
    /\ RGt(props.pm, Zero) /\ RGt(props.pg, Zero) /\ RGt(props.pt, Zero)

\* C2 as stated: with every composition field in [0,1], all four proportions are
\* non-negative.
C2_AllNonNegative ==
    (Computed /\ FieldsInUnitInterval(fund)) =>
        /\ RGe(props.ps, Zero) /\ RGe(props.pm, Zero)
        /\ RGe(props.pg, Zero) /\ RGe(props.pt, Zero)

\* C2 amended: with every composition field in [0,1], Ps, Pm and Pg are
\* non-negative, and Pt is non-negative exactly when Ps + Pm + Pg <= 1.
C2_NonNegativeUpToResidual ==
    (Computed /\ FieldsInUnitInterval(fund)) =>
        /\ RGe(props.ps, Zero) /\ RGe(props.pm, Zero) /\ RGe(props.pg, Zero)
        /\ RGe(props.pt, Zero) <=> RLe(SumOfThree, One)

\* C2 witness: fields in [0,1] whose applied shares exceed 1, Pt negative
C2_Witness ==
    /\ Computed /\ FieldsInUnitInterval(fund)
    /\ RGt(props.ps, Zero) /\ RGt(props.pg, Zero) /\ RLt(props.pt, Zero)

\* C3: Ps and Pm are mutually exclusive: Ps > 0 implies Pm = 0, Pm > 0 implies
\* Ps = 0, so at most one of them is non-zero.
C3_MutuallyExclusive ==
    Computed =>
        /\ RGt(props.ps, Zero) => props.pm = Zero
        /\ RGt(props.pm, Zero) => props.ps = Zero
        /\ ~(props.ps # Zero /\ props.pm # Zero)

\* C3 witness: a municipal fund in its own state, Ps > 0 and Pm = 0
C3_Witness ==
    /\ pc = "logic" /\ MunicipalShare(fund) # Zero /\ NameMatches(fund, state)
    /\ RGt(props.ps, Zero) /\ props.pm = Zero

\* C5: Ps is the municipal percentage when the fund's name matches the state and
\* (the state is not New Jersey or the percentage is >= 0.8); otherwise Ps = 0.
\* A SingleState New York fund whose municipal fields sum to 1 has Ps = 1 for NY
\* and Ps = 0 for CA.
C5_StateExemptProportion ==
    /\ Computed =>
          props.ps = IF NameMatches(fund, state)
                        /\ (~IsNewJersey(state) \/ RGe(MunicipalShare(fund), R(4, 5)))
                     THEN MunicipalShare(fund)
                     ELSE Zero
    /\ (/\ Computed /\ fund["category"] = "SingleState" /\ fund["name"] = NewYorkMuni
        /\ MunicipalShare(fund) = One) =>
          /\ state = NY => props.ps = One
          /\ state = CA => props.ps = Zero

\* C5 witness: a New Jersey fund at exactly 0.8 municipal, Ps = 0.8
C5_Witness ==
    /\ Computed /\ IsNewJersey(state) /\ fund["name"] = NewJerseyTaxFree
    /\ MunicipalShare(fund) = R(4, 5) /\ props.ps = R(4, 5)

C9_UnknownStateCompletes ==
    (pc \in {"logic", "optimizer"} /\ state = ZZ) =>
        /\ props.status = "ok"
        /\ props.ps = Zero
        /\ props.pm = MunicipalShare(fund)

\* C9, the calculation module alone
C9_UnknownStateCompletesInLogic ==
    (pc = "logic" /\ state = ZZ) =>
        /\ props.status = "ok"
        /\ props.ps = Zero
        /\ props.pm = MunicipalShare(fund)

(* ----------------------- what the yields should be ---------------------- *)

CombinedRate == RAdd(fed_rate, state_rate)
Denominator == RSub(RSub(One, fed_rate), state_rate)

\* C7: with fed_rate + state_rate < 1, the tax-equivalent yield taxed at both
\* rates is the after-tax yield:
\* tax_equivalent_yield * (1 - fed_rate - state_rate) = after_tax_yield.
C7_TaxEquivalentMatchesAfterTax ==
    (pc \in {"logic", "optimizer"} /\ RLt(CombinedRate, One)) =>
        /\ yields.status = "ok"
        /\ RMul(yields.tax_equivalent_yield, Denominator) = yields.after_tax_yield

\* C7 witness: a yield with every proportion and both rates positive
C7_Witness ==
    /\ pc = "logic" /\ RLt(CombinedRate, One)
    /\ RGt(fund_yield, Zero) /\ RGt(fed_rate, Zero) /\ RGt(state_rate, Zero)
    /\ RGt(p.ps, Zero) /\ RGt(p.pm, Zero) /\ RGt(p.pg, Zero) /\ RGt(p.pt, Zero)
    /\ RGt(yields.tax_equivalent_yield, yields.after_tax_yield)

\* C8: with fed_rate + state_rate >= 1 the tax-equivalent yield is the raw fund
\* yield, whatever the proportions, and nothing is divided by zero or by a
\* negative number.
C8_FallbackToRawYield ==
    (pc \in {"logic", "optimizer"} /\ RGe(CombinedRate, One)) =>
        /\ yields.status = "ok"
        /\ yields.tax_equivalent_yield = fund_yield

\* C8, the calculation module alone
C8_FallbackToRawYieldInLogic ==
    (pc = "logic" /\ RGe(CombinedRate, One)) =>
        /\ yields.status = "ok"
        /\ yields.tax_equivalent_yield = fund_yield

(* -------------------- what the marginal rate should be ------------------ *)

Qualifying == {i \in 1..Len(brackets) : brackets[i][1] <= income}
LastQualifying == CHOOSE i \in Qualifying : \A j \in Qualifying : j <= i

NonDecreasingRates(table) ==
    \A i \in 1..(Len(table) - 1) : RLe(table[i][2], table[i + 1][2])

\* C4 as stated: for a table ascending by threshold, the marginal rate is
\* non-decreasing in income.
C4_MonotonicInIncome ==
    pc = "logic" =>
        \A a \in 0..income : RLe(get_marginal_rate(a, brackets), rate)

\* C4 amended: for a table ascending by threshold whose rates are non-decreasing
\* as well, the marginal rate is non-decreasing in income.
C4_MonotonicForProgressiveRates ==
    (pc = "logic" /\ NonDecreasingRates(brackets)) =>
        \A a \in 0..income : RLe(get_marginal_rate(a, brackets), rate)

\* C4 witness: a progressive table and two incomes with different rates
C4_Witness ==
    /\ pc = "logic" /\ NonDecreasingRates(brackets) /\ Len(brackets) >= 2
    /\ \E a \in 0..income : RLt(get_marginal_rate(a, brackets), rate)

\* C10: for a non-empty table ascending by threshold and a non-negative income,
\* the result is the rate of the last bracket whose threshold is <= income, and
\* the first bracket's rate when income is below every threshold.
C10_LastQualifyingBracket ==
    pc = "logic" =>
        rate = IF Qualifying = {} THEN brackets[1][2] ELSE brackets[LastQualifying][2]

\* C10 witness: the scan stops early at a bracket above the income, after passing
\* a bracket the income equals
C10_Witness ==
    /\ pc = "logic" /\ Len(brackets) = 3
    /\ brackets[2][1] = income /\ brackets[3][1] > income
    /\ rate = brackets[2][2] /\ rate # brackets[1][2] /\ rate # brackets[3][2]

====
